---- MODULE Spec2Model ----
(***************************************************************************)
(* Model of cargo-hackerman: the manifest editor (src/src/toml.rs), the    *)
(* changeset loop and the driver (src/src/hack.rs).                        *)
(*                                                                         *)
(* A manifest is modelled by the parts of the TOML document the editor     *)
(* reads or writes: the four dependency sections as ordered key/value      *)
(* lists, package.metadata.hackerman.lock, the two stash tables, the       *)
(* number of banner copies in front of the first item, and one token for   *)
(* everything else (comments, other metadata, other sections).             *)
(***************************************************************************)
EXTENDS Integers, Sequences, FiniteSets, TLC

\* ------------------------------------------------------------------ bounds
\* number of set_dependencies runs in one behaviour
MaxHacks == 2
\* number of hand edits of the manifest in one behaviour
MaxEdits == 1
\* number of commands run on the workspace in one behaviour
MaxRuns == 2

\* ------------------------------------------------------------ TOML items
\* A dependency value.  form: "str" (serde = "1.0"), "inline"
\* (serde = { version = .. }), "table" ([dependencies.serde]), and for
\* stash entries also "bool" (ver is "true"/"false") and "int".
Item(form, ver, feats, nodefault, package) ==
    [form |-> form, ver |-> ver, feats |-> feats, nodefault |-> nodefault,
     package |-> package]

StrItem(v) == Item("str", v, {}, FALSE, "")
BoolItem(b) == Item("bool", IF b THEN "true" ELSE "false", {}, FALSE, "")
IntItem == Item("int", "1", {}, FALSE, "")

is_inline_table(item) == item.form = "inline"
is_str(item) == item.form = "str"
is_bool(item) == item.form = "bool"

\* A key of a dependency table: the crate name, or for a renamed entry
\* hackerman-<name>-<hash of the source>
Key(n, h) == [n |-> n, h |-> h]
PlainKey(n) == Key(n, "")

Entry(k, i) == [key |-> k, item |-> i]

\* ------------------------------------------------------- toml_edit::Table
RECURSIVE IndexOf(_, _, _)
IndexOf(tbl, k, i) ==
    IF i > Len(tbl) THEN 0
    ELSE IF tbl[i].key = k THEN i ELSE IndexOf(tbl, k, i + 1)

contains_key(tbl, k) == IndexOf(tbl, k, 1) # 0

\* Table::get
TableGet(tbl, k) == tbl[IndexOf(tbl, k, 1)].item

\* Table::insert: replaces in place, or appends
TableInsert(tbl, k, item) ==
    LET i == IndexOf(tbl, k, 1)
    IN IF i = 0 THEN Append(tbl, Entry(k, item))
       ELSE [tbl EXCEPT ![i] = Entry(k, item)]

\* Table::remove
TableRemove(tbl, k) == SelectSeq(tbl, LAMBDA e : e.key # k)

\* the order of keys used by sort_values (string order of the key text)
NameRank(n) ==
    CASE n = "cc" -> 1
      [] n = "foo" -> 2
      [] n = "serde" -> 3
      [] n = "tokio" -> 4
      [] OTHER -> 5

\* "hackerman-..." sorts after "cc" and "foo", before "serde" and "tokio"
KeyRank(k) == IF k.h = "" THEN 10 * NameRank(k.n) ELSE 20 + NameRank(k.n)

RECURSIVE sort_values(_)
sort_values(tbl) ==
    IF tbl = <<>> THEN <<>>
    ELSE LET m == CHOOSE i \in 1..Len(tbl) :
                      \A j \in 1..Len(tbl) : KeyRank(tbl[i].key) <= KeyRank(tbl[j].key)
             rest == [j \in 1..(Len(tbl) - 1) |-> IF j < m THEN tbl[j] ELSE tbl[j + 1]]
         IN <<tbl[m]>> \o sort_values(rest)

\* the table as a map, forgetting the order of the keys
AsMap(tbl) == {<<tbl[i].key, tbl[i].item>> : i \in 1..Len(tbl)}

\* --------------------------------------------------------------- document
DepSections == <<"dependencies", "dev-dependencies", "build-dependencies", "target">>
StashTys == <<"dependencies", "dev-dependencies">>

\* package.metadata.hackerman.lock.dependencies: absent, or an integer
NoLock == [present |-> FALSE, h |-> <<>>]
\* package.metadata.hackerman.stash.<ty>: absent, a table, or some other item
NoStash == [kind |-> "none", tbl |-> <<>>]
StashTable(tbl) == [kind |-> "table", tbl |-> tbl]
BadStash == [kind |-> "bad", tbl |-> <<>>]

Doc(tab, lock, stash, banner, other) ==
    [tab |-> tab, lock |-> lock, stash |-> stash, banner |-> banner, other |-> other]

\* what writing the document and parsing it again gives: an implicit table
\* without values is not printed, so an empty stash table is gone
WriteParse(doc) ==
    [doc EXCEPT !.stash = [ty \in DOMAIN doc.stash |->
                              IF doc.stash[ty] = StashTable(<<>>) THEN NoStash
                              ELSE doc.stash[ty]]]

\* ------------------------------------------------------------- checksum
\* top-level keys of the document, in the order get_checksum walks them
TopKeys == <<"package", "dependencies", "dev-dependencies", "build-dependencies", "target">>

\* what add_checksum feeds to the hasher for one top-level item: every key
\* and the text of every value, in table order.  The name of the top-level
\* key itself is not hashed.
add_checksum(doc, name) ==
    IF name = "package"
    THEN (IF doc.stash["dependencies"].kind = "table"
          THEN doc.stash["dependencies"].tbl ELSE <<>>)
         \o (IF doc.stash["dev-dependencies"].kind = "table"
             THEN doc.stash["dev-dependencies"].tbl ELSE <<>>)
         \o <<Entry(PlainKey("other"), StrItem(doc.other))>>
    ELSE doc.tab[name]

\* the mutant of the key filter: "package" is hashed as well
Checksummed_all(name) == TRUE

\* the match of get_checksum on the top-level key
Checksummed(name) ==
    name \in {"dependencies", "dev-dependencies", "build-dependencies", "target"}

RECURSIVE HashedStream(_, _)
HashedStream(doc, i) ==
    IF i > Len(TopKeys) THEN <<>>
    ELSE (IF Checksummed(TopKeys[i]) THEN add_checksum(doc, TopKeys[i]) ELSE <<>>)
         \o HashedStream(doc, i + 1)

\* The hash is modelled as injective: the checksum is the hashed stream.
get_checksum(doc) == [present |-> TRUE, h |-> HashedStream(doc, 1)]

\* --------------------------------------------------------- applying changes
\* Ty::table_name
table_name(ty) == IF ty = "Dev" THEN "dev-dependencies" ELSE "dependencies"

\* PackageSource::insert_into: the version for a registry crate, the path
\* for a local one
insert_into(change) ==
    IF change.source = "path" THEN "../local" ELSE change.version

\* mutant of compile_change_package: the package key is always written
compile_change_package_always_renamed(change) ==
    [item |-> Item("inline", insert_into(change), change.feats \ {"default"},
                   "default" \notin change.feats, change.name),
     name |-> IF change.rename THEN Key(change.name, change.source)
              ELSE PlainKey(change.name)]

\* compile_change_package: the inline table and the key it goes under
compile_change_package(change) ==
    [item |-> Item("inline", insert_into(change), change.feats \ {"default"},
                   "default" \notin change.feats,
                   IF change.rename THEN change.name ELSE ""),
     name |-> IF change.rename THEN Key(change.name, change.source)
              ELSE PlainKey(change.name)]

\* the loop over the changes of set_dependencies_toml: st.doc is the
\* document, st.saved the Stash of displaced values
RECURSIVE InsertChanges(_, _, _)
InsertChanges(st, changes, i) ==
    IF i > Len(changes) THEN st
    ELSE LET change == changes[i]
             top == table_name(change.ty)
             c == compile_change_package(change)
             table == st.doc.tab[top]
             old == IF contains_key(table, c.name) THEN TableGet(table, c.name)
                    ELSE BoolItem(FALSE)
         IN InsertChanges(
                [doc |-> [st.doc EXCEPT !.tab[top] = TableInsert(table, c.name, c.item)],
                 saved |-> [st.saved EXCEPT ![top] = Append(@, Entry(c.name, old))]],
                changes, i + 1)

RECURSIVE InsertAll(_, _, _)
InsertAll(tbl, saved, i) ==
    IF i > Len(saved) THEN tbl
    ELSE InsertAll(TableInsert(tbl, saved[i].key, saved[i].item), saved, i + 1)

Ok(doc) == [err |-> "", doc |-> doc]
Err(msg, doc) == [err |-> msg, doc |-> doc]

\* get_table on a stash path: creates the table when it is missing, fails
\* when something that is not a table is in the way
StashOrNew(doc, ty) ==
    IF doc.stash[ty].kind = "none" THEN <<>> ELSE doc.stash[ty].tbl

\* add_banner
add_banner(doc) == [doc EXCEPT !.banner = @ + 1]

\* mutant of the target check: a target section is never seen
TargetDependenciesPresent_never(toml) == FALSE

\* toml.contains_key("target"), the first check of set_dependencies_toml
TargetDependenciesPresent(toml) == toml.tab["target"] # <<>>

\* set_dependencies_toml: the document after the edit, or the error
set_dependencies_toml(toml, lock, changes) ==
    IF TargetDependenciesPresent(toml) THEN Err("TargetDependenciesPresent", toml)
    ELSE LET st == InsertChanges([doc |-> toml,
                                  saved |-> [ty \in {"dependencies", "dev-dependencies"} |-> <<>>]],
                                 changes, 1)
             locked == IF lock THEN [st.doc EXCEPT !.lock = get_checksum(st.doc)]
                       ELSE st.doc
         IN IF \E ty \in {"dependencies", "dev-dependencies"} : toml.stash[ty].kind = "bad"
            THEN Err("ExpectedTable", toml)
            ELSE LET stashed ==
                         [locked EXCEPT !.stash =
                             [ty \in {"dependencies", "dev-dependencies"} |->
                                 StashTable(InsertAll(StashOrNew(locked, ty), st.saved[ty], 1))]]
                 IN Ok(IF lock THEN add_banner(stashed) ELSE stashed)

\* set_dependencies: the file after the call (it is written only on success)
set_dependencies(file, lock, changes) ==
    LET r == set_dependencies_toml(file, lock, changes)
    IN IF r.err = "" THEN Ok(WriteParse(r.doc)) ELSE Err(r.err, file)

\* ---------------------------------------------------------------- restore
\* strip_banner: one copy of the banner is taken off the prefix.  The value
\* returned is FALSE when a banner was stripped and TRUE when the prefix
\* holds no banner.
strip_banner(doc) ==
    IF doc.banner > 0 THEN [doc |-> [doc EXCEPT !.banner = @ - 1], changed |-> FALSE]
    ELSE [doc |-> doc, changed |-> TRUE]

\* one step of the loop over a stash table in restore_toml
RestoreEntry(table, e) ==
    IF is_inline_table(e.item) \/ is_str(e.item) THEN Ok(TableInsert(table, e.key, e.item))
    ELSE IF is_bool(e.item) THEN Ok(TableRemove(table, e.key))
    ELSE Err("StashCorrupted", table)

RECURSIVE RestoreEntries(_, _, _)
RestoreEntries(table, stash, i) ==
    IF i > Len(stash) THEN Ok(table)
    ELSE LET r == RestoreEntry(table, stash[i])
         IN IF r.err # "" THEN r ELSE RestoreEntries(r.doc, stash, i + 1)

\* the loop over ["dependencies", "dev-dependencies"] of restore_toml;
\* st is [doc, changed, err]
RECURSIVE RestoreTys(_, _)
RestoreTys(st, i) ==
    IF i > Len(StashTys) \/ st.err # "" THEN st
    ELSE LET ty == StashTys[i]
             stash == st.doc.stash[ty]
         IN IF stash.kind = "none" THEN RestoreTys(st, i + 1)
            ELSE IF stash.kind = "bad" THEN [st EXCEPT !.err = "StashCorrupted"]
            ELSE LET r == RestoreEntries(st.doc.tab[ty], stash.tbl, 1)
                 IN IF r.err # "" THEN [st EXCEPT !.err = r.err]
                    ELSE RestoreTys(
                             [doc |-> [st.doc EXCEPT !.stash[ty] = NoStash,
                                                     !.tab[ty] = sort_values(r.doc)],
                              changed |-> st.changed \/ Len(stash.tbl) > 0,
                              err |-> ""],
                             i + 1)

\* restore_toml: [doc, changed, err]
restore_toml(toml) ==
    LET st == RestoreTys([doc |-> [toml EXCEPT !.lock = NoLock],
                          changed |-> toml.lock.present, err |-> ""], 1)
        b == strip_banner(st.doc)
    IN IF st.err # "" THEN st
       ELSE [doc |-> b.doc, changed |-> st.changed \/ b.changed, err |-> ""]

\* restore: the file after the call; it is written when restore_toml
\* succeeded and reported a change
restore(file) ==
    LET r == restore_toml(file)
    IN IF r.err # "" THEN Err(r.err, file)
       ELSE IF r.changed THEN Ok(WriteParse(r.doc)) ELSE Ok(file)

\* ----------------------------------------------------------------- verify
\* verify_checksum: "" or the error
verify_checksum(file) ==
    LET checksum == get_checksum(file)
    IN IF ~file.lock.present THEN ""
       ELSE IF file.lock = checksum THEN "ChecksumMismatch"
       ELSE ""

\* ======================================================= manifest editor
VARIABLES
    disk,    \* the manifest file
    orig,    \* the manifest the behaviour started with
    prev,    \* the manifest before the last operation
    last,    \* the last operation: [op, err, lock, changes]
    hist,    \* "fresh", "hacked" (one hack of the fresh file), "rehacked" (hacks
             \* only, more than one), "restored", "other"
    nhacks,  \* set_dependencies runs so far
    nedits,  \* hand edits so far
    \* the workspace driver
    base,    \* the feature graph of the workspace: a set of edges <<from, to>>
    devs,    \* the links of the members that are development links only
    graph,   \* fg2.graph of the run in progress
    queue,   \* members_dfs_postorder: the members still to be checked
    patches, \* the patch edges the run in progress has added
    cmd,     \* the command in progress or just finished: [op, dry, lock]
    prevcmd, \* the command before it
    pc,      \* "idle" or "loop"
    files,   \* the manifest of every workspace member
    start,   \* the manifests when the command started
    exit,    \* how the last command ended: "none", "ok", or the error
    runs,    \* commands started so far
    \* calls of the functions of the feature graph
    call,    \* the call: the function and its arguments
    ret,     \* what it returned, once it has returned
    \* the feature graph
    meta,      \* the cargo metadata the graph is built from
    npkg,      \* the number of packages FeatGraph::init has added
    fg,        \* the FeatGraph: nodes, edges, fids, fid_cache, triggers
    fg0,       \* the graph as FeatGraph::init returned it
    fpc,       \* the position: "init", "built", the steps of optimize, "optimized", "collected"
    to_remove, \* the batch of trim_unused_features
    removed,   \* what the last remove_node of the batch did
    col,       \* the last run of the collector: [root, mode, tree]
    added      \* the calls of add_edge made on the graph from outside init

mvars == <<disk, orig, prev, last, hist, nhacks, nedits>>
wvars == <<base, devs, graph, queue, patches, cmd, prevcmd, pc, files, start, exit, runs>>
nvars == <<call, ret>>
fvars == <<meta, npkg, fg, fg0, fpc, to_remove, removed, col, added>>

\* ---- inputs
Change(name, ty, version, source, feats, rename) ==
    [name |-> name, ty |-> ty, version |-> version, source |-> source,
     feats |-> feats, rename |-> rename]

\* the changes a run can be handed: a plain entry that displaces what the
\* manifest has, and two versions of one crate that need renamed keys
ChangePool ==
    << Change("serde", "Norm", "1.0", "registry", {"default", "derive"}, FALSE),
       Change("foo", "Dev", "1.0", "registry", {"derive"}, TRUE),
       Change("foo", "Dev", "2.0", "registry", {}, TRUE) >>

\* the lists of changes a run is handed: none (only the lock is written),
\* one that displaces a value, one more under a renamed key, and the two
\* versions of one crate together
ChangeLists ==
    {<<>>,
     <<ChangePool[1]>>,
     <<ChangePool[1], ChangePool[2]>>,
     <<ChangePool[2], ChangePool[3]>>}

TableItem(v) == Item("table", v, {}, FALSE, "")
InlineItem(v, feats) == Item("inline", v, feats, FALSE, "")

\* the forms a hand-written dependency takes
OrigItems == {StrItem("1.0"), InlineItem("1.0", {"std"}), TableItem("1.0")}

OrigDeps ==
    {<<>>} \cup
    {<<Entry(PlainKey("serde"), x)>> : x \in OrigItems} \cup
    {<<Entry(PlainKey("tokio"), StrItem("0.3")), Entry(PlainKey("serde"), StrItem("1.0"))>>}

Sections(d, v, t) ==
    [s \in {"dependencies", "dev-dependencies", "build-dependencies", "target"} |->
        CASE s = "dependencies" -> d
          [] s = "dev-dependencies" -> v
          [] s = "build-dependencies" -> <<Entry(PlainKey("cc"), StrItem("1.0"))>>
          [] OTHER -> t]

Unstashed == [ty \in {"dependencies", "dev-dependencies"} |-> NoStash]

\* manifests as their authors wrote them
OrigManifests ==
    {Doc(Sections(d, <<>>, <<>>), NoLock, Unstashed, 0, "a") : d \in OrigDeps}
    \cup {Doc(Sections(<<Entry(PlainKey("serde"), StrItem("1.0"))>>,
                       <<Entry(PlainKey("serde"), StrItem("1.0"))>>, <<>>),
              NoLock, Unstashed, 0, "a"),
          Doc(Sections(<<Entry(PlainKey("serde"), StrItem("1.0"))>>, <<>>,
                       <<Entry(PlainKey("winapi"), StrItem("0.3"))>>),
              NoLock, Unstashed, 0, "a")}

\* manifests whose stash was written by hand or by a bad merge
HandStashItems == {BoolItem(TRUE), BoolItem(FALSE), IntItem, StrItem("0.1"), TableItem("0.1")}

HandStashed ==
    {Doc(Sections(<<Entry(PlainKey("serde"), StrItem("1.0"))>>, <<>>, <<>>), NoLock,
         [ty \in {"dependencies", "dev-dependencies"} |->
             IF ty = t THEN StashTable(<<Entry(PlainKey("serde"), x)>>) ELSE NoStash],
         0, "a")
     : t \in {"dependencies"}, x \in HandStashItems}
    \cup {Doc(Sections(<<Entry(PlainKey("serde"), StrItem("1.0"))>>, <<>>, <<>>), NoLock,
              [ty \in {"dependencies", "dev-dependencies"} |->
                  IF ty = "dev-dependencies"
                  THEN StashTable(<<Entry(PlainKey("serde"), StrItem("0.1"))>>)
                  ELSE NoStash],
              0, "a")}
    \cup {Doc(Sections(<<Entry(PlainKey("serde"), StrItem("1.0"))>>, <<>>, <<>>), NoLock,
              [ty \in {"dependencies", "dev-dependencies"} |->
                  IF ty = "dependencies" THEN BadStash ELSE NoStash],
              0, "a")}

NoOp == [op |-> "none", err |-> "", lock |-> FALSE, changes |-> <<>>]

\* ====================================================== workspace graph
\* The nodes of the feature graph: the root, the base nodes of the two
\* workspace members, and the feature nodes of two external packages that
\* are two versions of one crate: foo 1.0 (base P, features f and g) and
\* foo 2.0 (base Q).
Root == "Root"
Members == {"A", "B"}
ExtNodes == {"P", "Pf", "Pg", "Q"}
Nodes == {Root} \cup Members \cup ExtNodes

\* FeatureId::package_id
package_id(n) == IF n \in {"P", "Pf", "Pg"} THEN "P" ELSE n

\* FeatureId::feature: "" stands for None, the base node of a package
feature(n) ==
    CASE n = "Pf" -> "f"
      [] n = "Pg" -> "g"
      [] OTHER -> ""

\* FeatKind::External
External(n) == n \in ExtNodes

\* the crate name and the version of a package
NameOf(p) == IF p \in {"P", "Q"} THEN "foo" ELSE p
VersionOf(p) == IF p = "Q" THEN "2.0" ELSE "1.0"

Succ(n, E) == {e[2] : e \in {x \in E : x[1] = n}}

\* the nodes reachable from the nodes of S, S included
RECURSIVE Reach(_, _)
Reach(S, E) ==
    LET T == S \cup UNION {Succ(n, E) : n \in S}
    IN IF T = S THEN S ELSE Reach(T, E)

\* transitive_reduction: an edge of the DAG stays unless its target is
\* reached through another successor of its source
transitive_reduction(E) ==
    {e \in E : ~\E mid \in Succ(e[1], E) : mid # e[2] /\ e[2] \in Reach({mid}, E)}

\* some order of a finite set of strings, as a sequence
RECURSIVE SetToSeq(_)
SetToSeq(S) ==
    IF S = {} THEN <<>>
    ELSE LET x == CHOOSE y \in S : TRUE IN <<x>> \o SetToSeq(S \ {x})

\* petgraph Dfs::next called until it returns None: the stack is popped, a
\* node not yet in the visit map is marked and returned, and its unvisited
\* successors are pushed.  disc is the visit map, seen the nodes returned.
RECURSIVE DfsRun(_, _, _, _)
DfsRun(stack, disc, E, seen) ==
    IF stack = <<>> THEN [disc |-> disc, seen |-> seen]
    ELSE LET node == stack[Len(stack)]
             rest == SubSeq(stack, 1, Len(stack) - 1)
         IN IF node \in disc THEN DfsRun(rest, disc, E, seen)
            ELSE DfsRun(rest \o SetToSeq(Succ(node, E) \ (disc \cup {node})),
                        disc \cup {node}, E, seen \cup {node})

\* workspace_feats: the named features of a package over all nodes of the graph
workspace_feats(p, E) ==
    {feature(n) : n \in {x \in Reach({Root}, E) : package_id(x) = p /\ feature(x) # ""}}

\* deps_feats: the named features of a package among the nodes collected
deps_feats(p, named) == {feature(n) : n \in {x \in named : package_id(x) = p}}

\* the order of the keys of deps_feats and of the features in a set
PkgRank(p) == IF p = "P" THEN 1 ELSE 2
FeatRank(f) == IF f = "f" THEN 1 ELSE 2

\* nodes.get(FeatureId::new(dep, feat))
NodeOf(p, f) == CHOOSE n \in Nodes : package_id(n) = p /\ feature(n) = f

\* the 'dependency loop of get_changeset2 for one member: to_check is
\* popped, the Dfs is moved there and run, named features are collected in
\* deps_feats, and for the first package whose features differ from the
\* workspace's an edge from the member to the first missing feature is added
\* and pushed on to_check.  The result is the graph with the edges added.
RECURSIVE DependencyLoop(_, _, _, _, _)
DependencyLoop(member_ix, to_check, disc, named, E) ==
    IF to_check = <<>> THEN E
    ELSE LET next_item == to_check[Len(to_check)]
             popped == SubSeq(to_check, 1, Len(to_check) - 1)
             r == DfsRun(<<next_item>>, disc, E, {})
             named2 == named \cup {n \in r.seen : feature(n) # ""}
             differ == {p \in {package_id(n) : n \in named2} :
                           workspace_feats(p, E) \ deps_feats(p, named2) # {}}
         IN IF differ = {} THEN DependencyLoop(member_ix, popped, r.disc, named2, E)
            ELSE LET dep == CHOOSE p \in differ : \A q \in differ : PkgRank(p) <= PkgRank(q)
                     miss == workspace_feats(dep, E) \ deps_feats(dep, named2)
                     missing_feat == CHOOSE f \in miss : \A g \in miss : FeatRank(f) <= FeatRank(g)
                     missing_feat_ix == NodeOf(dep, missing_feat)
                 IN DependencyLoop(member_ix, Append(popped, missing_feat_ix), r.disc,
                                   named2, E \cup {<<member_ix, missing_feat_ix>>})

\* the orders DfsPostOrder from the root can give over the workspace-only
\* nodes: a member comes after the members it depends on
PostOrders(E) ==
    {o \in {<<"A", "B">>, <<"B", "A">>} : o[2] \notin Reach({o[1]}, E)}

\* ---- inputs of the driver
\* what a member can depend on directly
DepSets == {{}, {"P"}, {"Pf"}, {"Pg"}, {"Pf", "Pg"}, {"Q"}, {"Pf", "Q"}, {"P", "Q"}}

\* the workspace graphs: the root holds the members, a member depends on
\* some nodes of the external packages and A may depend on B, a named
\* feature depends on the base of its package
Graphs ==
    {{<<Root, "A">>, <<Root, "B">>, <<"Pf", "P">>, <<"Pg", "P">>}
        \cup {<<"A", n>> : n \in da} \cup {<<"B", n>> : n \in db} \cup ab
     : da \in DepSets, db \in DepSets, ab \in {{}, {<<"A", "B">>}}}

\* the development-only links of the members: none, or A has a
\* dev-dependency on foo 1.0 with feature g
DevSets == {{}, {<<"A", "Pg">>}}

\* the links the feature graph is built from: a link that is neither a
\* normal nor a build link on this platform is not followed
FollowedLinks(links, dev) == links

\* the manifest of a member: never hacked, locked by an earlier
\* set_dependencies, or locked and then edited by hand
WsPlain == Doc(Sections(<<Entry(PlainKey("serde"), StrItem("1.0"))>>, <<>>, <<>>),
               NoLock, Unstashed, 0, "a")
WsLocked == set_dependencies(WsPlain, TRUE, <<ChangePool[1]>>).doc
WsEdited == [WsLocked EXCEPT !.tab["dependencies"][1].item.ver = "9.9"]
WsManifests == {WsPlain, WsLocked, WsEdited}

\* the commands: hack::apply(dry, lock), the hack command and the check
\* command of main
Commands ==
    {[op |-> "apply", dry |-> TRUE, lock |-> FALSE],
     [op |-> "apply", dry |-> FALSE, lock |-> FALSE],
     [op |-> "apply", dry |-> FALSE, lock |-> TRUE],
     [op |-> "hack", dry |-> FALSE, lock |-> FALSE],
     [op |-> "hack", dry |-> FALSE, lock |-> TRUE],
     [op |-> "check", dry |-> TRUE, lock |-> FALSE]}

NoCmd == [op |-> "none", dry |-> FALSE, lock |-> FALSE]

\* no function of the feature graph has been called
NoCall == [fn |-> "none"]

\* the call has not returned / has returned val
Pending == [done |-> FALSE, val |-> FALSE]
Returned(val) == [done |-> TRUE, val |-> val]

FnIdle ==
    /\ call = NoCall
    /\ ret = Pending

\* no feature graph has been built
FgIdle ==
    /\ meta = <<>>
    /\ npkg = 0
    /\ fg = <<>>
    /\ fg0 = <<>>
    /\ fpc = "none"
    /\ to_remove = <<>>
    /\ removed = <<>>
    /\ col = <<>>
    /\ added = <<>>

\* the driver at rest, for behaviours of the manifest editor alone
WsIdle ==
    /\ base = {}
    /\ devs = {}
    /\ graph = {}
    /\ queue = <<>>
    /\ patches = {}
    /\ cmd = NoCmd
    /\ prevcmd = NoCmd
    /\ pc = "idle"
    /\ files = [m \in Members |-> WsPlain]
    /\ start = files
    /\ exit = "none"
    /\ runs = 0

\* the single manifest at rest, for behaviours of the driver alone
ManifestIdle ==
    /\ disk = WsPlain
    /\ orig = disk
    /\ prev = disk
    /\ last = NoOp
    /\ hist = "fresh"
    /\ nhacks = 0
    /\ nedits = 0

InitManifest ==
    /\ disk \in OrigManifests \cup HandStashed
    /\ orig = disk
    /\ prev = disk
    /\ last = NoOp
    /\ hist = IF disk \in OrigManifests THEN "fresh" ELSE "other"
    /\ nhacks = 0
    /\ nedits = 0
    /\ WsIdle
    /\ FnIdle
    /\ FgIdle

\* ---- operations
\* cargo hackerman hack on this manifest: toml::set_dependencies
Hack ==
    /\ nhacks < MaxHacks
    /\ \E lock \in BOOLEAN, changes \in ChangeLists :
          LET r == set_dependencies(disk, lock, changes)
          IN /\ disk' = r.doc
             /\ last' = [op |-> "hack", err |-> r.err, lock |-> lock, changes |-> changes]
             /\ hist' = IF r.err # "" THEN hist
                        ELSE IF hist = "fresh" THEN "hacked"
                        ELSE IF hist \in {"hacked", "rehacked"} THEN "rehacked"
                        ELSE "other"
    /\ prev' = disk
    /\ nhacks' = nhacks + 1
    /\ UNCHANGED <<orig, nedits>>
    /\ UNCHANGED <<wvars, nvars, fvars>>

\* cargo hackerman restore on this manifest: toml::restore
Restore ==
    /\ last.op # "restore"
    /\ LET r == restore(disk)
       IN /\ disk' = r.doc
          /\ last' = [op |-> "restore", err |-> r.err, lock |-> FALSE, changes |-> <<>>]
    /\ hist' = IF hist = "hacked" THEN "restored" ELSE "other"
    /\ prev' = disk
    /\ UNCHANGED <<orig, nhacks, nedits>>
    /\ UNCHANGED <<wvars, nvars, fvars>>

\* toml::verify_checksum on this manifest
Verify ==
    /\ last.op # "verify"
    /\ last' = [op |-> "verify", err |-> verify_checksum(disk), lock |-> FALSE,
                changes |-> <<>>]
    /\ prev' = disk
    /\ UNCHANGED <<disk, orig, hist, nhacks, nedits>>
    /\ UNCHANGED <<wvars, nvars, fvars>>

Edited(doc, what) ==
    /\ disk' = doc
    /\ last' = [op |-> what, err |-> "", lock |-> FALSE, changes |-> <<>>]
    /\ prev' = disk
    /\ hist' = "other"
    /\ nedits' = nedits + 1
    /\ UNCHANGED <<orig, nhacks>>
    /\ UNCHANGED <<wvars, nvars, fvars>>

\* the user changes the version of the first dependency of a section by hand
EditDependency ==
    \E s \in {"dependencies", "build-dependencies"} :
       /\ nedits < MaxEdits
       /\ disk.tab[s] # <<>>
       /\ disk.tab[s][1].item.ver # "9.9"
       /\ Edited([disk EXCEPT !.tab[s][1].item.ver = "9.9"], "edit-dependency")

\* the user changes a comment or some other metadata; an edit changes the file
EditOther ==
    /\ nedits < MaxEdits
    /\ disk.other # "b"
    /\ Edited([disk EXCEPT !.other = "b"], "edit-other")

NextManifest == Hack \/ Restore \/ Verify \/ EditDependency \/ EditOther

\* ======================================================== workspace driver
\* rename detection: the crate names of which the member reaches two versions
renames(m, E) ==
    LET pk == {package_id(n) : n \in Reach({m}, E) \ {m}}
    IN {NameOf(p) : p \in {q \in pk : \E r \in pk : /\ NameOf(r) = NameOf(q)
                                                    /\ VersionOf(r) # VersionOf(q)}}

\* materialise: one change for every package the member has a patch edge
\* to, with the features the workspace uses
Materialise(m, map, E) ==
    LET pkgs == SetToSeq({package_id(e[2]) : e \in {x \in map : x[1] = m}})
    IN [i \in 1..Len(pkgs) |->
           Change(NameOf(pkgs[i]), "Norm", VersionOf(pkgs[i]), "registry",
                  workspace_feats(pkgs[i], E), NameOf(pkgs[i]) \in renames(m, E))]

\* the loop over the workspace packages that patches the manifests of the
\* members the map has an entry for; the first error ends it
RECURSIVE PatchMembers(_, _, _, _, _, _)
PatchMembers(order, i, map, lock, fs, E) ==
    IF i > Len(order) THEN [exit |-> "ok", files |-> fs]
    ELSE IF \A e \in map : e[1] # order[i]
         THEN PatchMembers(order, i + 1, map, lock, fs, E)
         ELSE LET r == set_dependencies(fs[order[i]], lock, Materialise(order[i], map, E))
              IN IF r.err # "" THEN [exit |-> r.err, files |-> fs]
                 ELSE PatchMembers(order, i + 1, map, lock,
                                   [fs EXCEPT ![order[i]] = r.doc], E)

\* what get_changeset2 returns after its loop has added the edges in found:
\* the empty map
get_changeset2(found) == {}

\* mutant of apply: set_dependencies is called for every member, with or
\* without an entry in the map
apply_patches_every_member(dry, lock, map, fs, E) ==
    IF dry THEN [exit |-> "ok", files |-> fs]
    ELSE [exit |-> "ok",
          files |-> [m \in Members |->
                        set_dependencies(fs[m], lock, Materialise(m, map, E)).doc]]

\* hack::apply after get_changeset2: [exit, files]
apply(dry, lock, map, fs, E) ==
    IF dry THEN [exit |-> "ok", files |-> fs]
    ELSE IF map = {} THEN [exit |-> "ok", files |-> fs]
    ELSE PatchMembers(SetToSeq(Members), 1, map, lock, fs, E)

\* the hack command of main: under --dry it fails when changes are
\* required, otherwise it patches the manifests
hack(dry, lock, map, fs, E) ==
    IF dry THEN [exit |-> IF map = {} THEN "ok" ELSE "ChangesRequired", files |-> fs]
    ELSE PatchMembers(SetToSeq(Members), 1, map, lock, fs, E)

InitWs ==
    /\ base \in Graphs
    /\ devs \in DevSets
    /\ graph = {}
    /\ queue = <<>>
    /\ patches = {}
    /\ cmd = NoCmd
    /\ prevcmd = NoCmd
    /\ pc = "idle"
    /\ \E d \in WsManifests : files = [m \in Members |-> IF m = "A" THEN d ELSE WsPlain]
    /\ start = files
    /\ exit = "none"
    /\ runs = 0
    /\ ManifestIdle
    /\ FnIdle
    /\ FgIdle

\* a command starts.  The check command verifies the checksum of every
\* member first and ends there when one fails; otherwise the changeset
\* computation begins: the graph is reduced and the members are ordered.
Start ==
    /\ pc = "idle"
    /\ runs < MaxRuns
    /\ \E c \in Commands :
          /\ cmd' = c
          /\ IF c.op = "check" /\ \E m \in Members : verify_checksum(files[m]) # ""
             THEN /\ pc' = "idle"
                  /\ exit' = "ChecksumMismatch"
                  /\ UNCHANGED <<graph, queue>>
             ELSE /\ pc' = "loop"
                  /\ exit' = "none"
                  /\ graph' = transitive_reduction(FollowedLinks(base, devs))
                  /\ queue' \in PostOrders(base)
    /\ prevcmd' = cmd
    /\ start' = files
    /\ patches' = {}
    /\ runs' = runs + 1
    /\ UNCHANGED <<base, devs, files>>
    /\ UNCHANGED <<mvars, nvars, fvars>>

\* one member of members_dfs_postorder is checked
CheckMember ==
    /\ pc = "loop"
    /\ queue # <<>>
    /\ LET member_ix == Head(queue)
           E == DependencyLoop(member_ix, <<member_ix>>, {}, {}, graph)
       IN /\ graph' = E
          /\ patches' = patches \cup (E \ graph)
    /\ queue' = Tail(queue)
    /\ UNCHANGED <<base, devs, cmd, prevcmd, pc, files, start, exit, runs>>
    /\ UNCHANGED <<mvars, nvars, fvars>>

\* hack::apply ends
FinishApply ==
    /\ pc = "loop"
    /\ queue = <<>>
    /\ cmd.op = "apply"
    /\ LET map == get_changeset2(patches)
           r == apply(cmd.dry, cmd.lock, map, files, graph)
       IN /\ files' = r.files
          /\ exit' = r.exit
          /\ base' = IF cmd.dry THEN base ELSE base \cup map
    /\ pc' = "idle"
    /\ UNCHANGED <<devs, graph, queue, patches, cmd, prevcmd, start, runs>>
    /\ UNCHANGED <<mvars, nvars, fvars>>

\* the hack command ends
FinishHack ==
    /\ pc = "loop"
    /\ queue = <<>>
    /\ cmd.op = "hack"
    /\ LET r == hack(cmd.dry, cmd.lock, patches, files, graph)
       IN /\ files' = r.files
          /\ exit' = r.exit
          /\ base' = IF cmd.dry \/ r.exit # "ok" THEN base ELSE base \cup patches
    /\ pc' = "idle"
    /\ UNCHANGED <<devs, graph, queue, patches, cmd, prevcmd, start, runs>>
    /\ UNCHANGED <<mvars, nvars, fvars>>

\* the check command ends: hack(dry = true, lock = false)
FinishCheck ==
    /\ pc = "loop"
    /\ queue = <<>>
    /\ cmd.op = "check"
    /\ exit' = hack(TRUE, FALSE, patches, files, graph).exit
    /\ pc' = "idle"
    /\ UNCHANGED <<base, devs, graph, queue, patches, cmd, prevcmd, files, start, runs>>
    /\ UNCHANGED <<mvars, nvars, fvars>>

NextWs == Start \/ CheckMember \/ FinishApply \/ FinishHack \/ FinishCheck

\* ============================================ functions of the feature graph
\* number of pieces a feature string is put together from
MaxParts == 4
\* number of kinds on one link
MaxKinds == 2

\* ---- FeatTarget
\* str::strip_prefix(p).is_some()
StartsWith(s, p) == Len(s) >= Len(p) /\ SubSeq(s, 1, Len(p)) = p

\* str::find: the index of the first occurrence of pat at or after i, 0 for None
RECURSIVE FindFrom(_, _, _)
FindFrom(s, pat, i) ==
    IF i + Len(pat) - 1 > Len(s) THEN 0
    ELSE IF SubSeq(s, i, i + Len(pat) - 1) = pat THEN i
    ELSE FindFrom(s, pat, i + 1)

\* str::split_once
split_once(s, pat) ==
    LET i == FindFrom(s, pat, 1)
    IN IF i = 0 THEN [some |-> FALSE, l |-> "", r |-> ""]
       ELSE [some |-> TRUE, l |-> SubSeq(s, 1, i - 1), r |-> SubSeq(s, i + Len(pat), Len(s))]

Named(name) == [tag |-> "Named", name |-> name, krate |-> "", feat |-> ""]
Dependency(krate) == [tag |-> "Dependency", name |-> "", krate |-> krate, feat |-> ""]
Remote(krate, feat) == [tag |-> "Remote", name |-> "", krate |-> krate, feat |-> feat]
Cond(krate, feat) == [tag |-> "Cond", name |-> "", krate |-> krate, feat |-> feat]

\* mutant of the parser: the plain slash is looked for before "?/"
FeatTarget_from_slash_first(s) ==
    IF StartsWith(s, "dep:") THEN Dependency(SubSeq(s, 5, Len(s)))
    ELSE IF split_once(s, "/").some
         THEN Remote(split_once(s, "/").l, split_once(s, "/").r)
    ELSE IF split_once(s, "?/").some
         THEN Cond(split_once(s, "?/").l, split_once(s, "?/").r)
    ELSE Named(s)

\* impl From<&str> for FeatTarget
FeatTarget_from(s) ==
    IF StartsWith(s, "dep:") THEN Dependency(SubSeq(s, 5, Len(s)))
    ELSE IF split_once(s, "?/").some
         THEN Cond(split_once(s, "?/").l, split_once(s, "?/").r)
    ELSE IF split_once(s, "/").some
         THEN Remote(split_once(s, "/").l, split_once(s, "/").r)
    ELSE Named(s)

\* ---- satisfies
\* DepKindInfo: the kind of a dependency and its target predicate, which is
\* absent ("none") or evaluates on this platform to true ("match") or false
DepKindInfo(kind, target) == [kind |-> kind, target |-> target]
NORMAL == DepKindInfo("Normal", "none")
DEV == DepKindInfo("Development", "none")

\* Link
Link(optional, kinds) == [optional |-> optional, kinds |-> kinds]

\* Feat::Base; any other value of feat is the name of Feat::Named
Base == ":base:"

\* Feature: the weight of a node, with the package and the Feat of its Fid;
\* both are "" for Root
Feature(kind, pid, feat) == [kind |-> kind, pid |-> pid, feat |-> feat]
FeatureRoot == Feature("Root", "", "")

\* Feature::is_workspace
is_workspace(f) == f.kind \in {"Root", "Workspace"}

\* Collect: the collection mode, pid is the member of MemberDev
Collect(mode, pid) == [mode |-> mode, pid |-> pid]

\* DepKindInfo::satisfies
DepKindInfo_satisfies(self, source, filter) ==
    IF /\ self.kind = "Development"
       /\ \/ filter.mode \in {"AllTargets", "Target", "NoDev", "NormalOnly"}
          \/ filter.mode = "MemberDev" /\ source.kind # "Root" /\ source.pid # filter.pid
          \/ filter.mode = "DevTarget" /\ ~is_workspace(source)
    THEN FALSE
    ELSE self.target \in {"none", "match"}

\* Link::satisfies
Link_satisfies(link, source, filter) ==
    \E i \in 1..Len(link.kinds) : DepKindInfo_satisfies(link.kinds[i], source, filter)

\* ---- inputs
\* the pieces feature strings are put together from
Parts == {"dep:", "de", "p:", "?", "/", "a"}

RECURSIVE Concats(_)
Concats(n) ==
    IF n = 0 THEN {""}
    ELSE LET shorter == Concats(n - 1)
         IN shorter \cup {s \o p : s \in shorter, p \in Parts}

FeatStrings == Concats(MaxParts) \cup {"quote", "dep:serde_json", "syn/extra-tr", "rgb?/serde"}

DepKinds == {"Normal", "Development", "Build"}
DepKindInfos == {DepKindInfo(k, t) : k \in DepKinds, t \in {"none", "match", "nomatch"}}

RECURSIVE KindLists(_)
KindLists(n) ==
    IF n = 0 THEN {<<>>}
    ELSE LET shorter == KindLists(n - 1)
         IN shorter \cup {Append(l, k) : l \in shorter, k \in DepKindInfos}

Links == {Link(FALSE, l) : l \in KindLists(MaxKinds)}

\* the source of an edge: the root, a base node of a workspace member, a
\* node of an external package
Sources == {FeatureRoot, Feature("Workspace", "M", Base), Feature("Workspace", "N", Base),
            Feature("External", "foo", Base)}

Filters == {Collect(m, "") : m \in {"AllTargets", "Target", "NoDev", "NormalOnly", "DevTarget"}}
           \cup {Collect("MemberDev", "M")}

\* the other machines at rest
OthersIdle == ManifestIdle /\ WsIdle

\* ---- optimize_feats
\* the elements of a sequence
elems(seq) == {seq[i] : i \in DOMAIN seq}

\* the named features the feature strings of a requested feature name
\* directly; declared is a function from the declared features to their
\* lists of feature strings
named_deps(declared, req) ==
    IF req \in DOMAIN declared
    THEN {FeatTarget_from(dep).name :
            dep \in {d \in elems(declared[req]) : FeatTarget_from(d).tag = "Named"}}
    ELSE {}

\* optimize_feats: the requested set it leaves
optimize_feats(declared, requested) ==
    LET implicit == UNION {named_deps(declared, req) : req \in requested}
    IN  requested \ implicit

\* number of features of the importee
MaxDeclared == 3

FeatNames == <<"a", "b", "c", "d">>

Declarable == {FeatNames[i] : i \in 1..MaxDeclared}

\* the lists of feature strings of a feature: none, a dependency and a
\* feature of a dependency, one named feature, two named features around a
\* dependency
DepLists ==
    {<<>>, <<"dep:x", "x/a">>, <<"b", "dep:x", "c">>}
    \cup {<<f>> : f \in Declarable}

\* the feature maps: Package::features
DeclaredMaps == UNION {[D -> DepLists] : D \in SUBSET Declarable}

\* the calls: FeatTarget::from on a feature string, Link::satisfies on a
\* link, optimize_feats on a feature map and a requested set
Calls ==
    {[fn |-> "FeatTarget::from", s |-> s] : s \in FeatStrings}
    \cup {[fn |-> "Link::satisfies", link |-> link, source |-> source, filter |-> filter]
          : link \in Links, source \in Sources, filter \in Filters}
    \cup {[fn |-> "optimize_feats", declared |-> declared, requested |-> requested]
          : declared \in DeclaredMaps, requested \in SUBSET Declarable}

InitFn ==
    /\ FgIdle
    /\ call \in Calls
    /\ ret = Pending
    /\ OthersIdle

\* FeatTarget::from returns
ParseFeatTarget ==
    /\ call.fn = "FeatTarget::from"
    /\ ~ret.done
    /\ ret' = Returned(FeatTarget_from(call.s))
    /\ UNCHANGED <<call, mvars, wvars, fvars>>

\* Link::satisfies returns
Satisfies ==
    /\ call.fn = "Link::satisfies"
    /\ ~ret.done
    /\ ret' = Returned(Link_satisfies(call.link, call.source, call.filter))
    /\ UNCHANGED <<call, mvars, wvars, fvars>>

\* optimize_feats returns
OptimizeFeats ==
    /\ call.fn = "optimize_feats"
    /\ ~ret.done
    /\ ret' = Returned(optimize_feats(call.declared, call.requested))
    /\ UNCHANGED <<call, mvars, wvars, fvars>>

NextFn == ParseFeatTarget \/ Satisfies \/ OptimizeFeats

\* ========================================================= the feature graph
\* ---- cargo metadata
\* cargo_metadata::Dependency, as far as the graph reads it
Dep(name, kind, optional, features) ==
    [name |-> name, kind |-> kind, optional |-> optional, target |-> "none",
     uses_default_features |-> TRUE, features |-> features, rename |-> ""]

\* one entry of Package::features: a feature and the feature strings it enables
Feat(name, deps) == [name |-> name, deps |-> deps]

\* cargo_metadata::Package; a package is identified by its name
Package(name, dependencies, features) ==
    [name |-> name, dependencies |-> dependencies, features |-> features]

\* Pid::package
package(m, pid) == CHOOSE p \in {m.packages[i] : i \in DOMAIN m.packages} : p.name = pid

\* features.has_feature
has_feature(p, f) == \E i \in DOMAIN p.features : p.features[i].name = f

\* Fid, Pid::base, Pid::named, Pid::root
Fid(pid, feat) == [pid |-> pid, feat |-> feat]
base_of(pid) == Fid(pid, Base)
named(pid, feat) == Fid(pid, feat)
Pid_root(m, pid) ==
    IF has_feature(package(m, pid), "default") THEN named(pid, "default") ELSE base_of(pid)

\* Feature::fid of a node that is not Root
fid_of(f) == Fid(f.pid, f.feat)

\* ---- the graph
\* Graph::new with the Root node added: nodes are numbered from 1 and an edge
\* is [a, b, link]; fids and fid_cache are sets of <<fid, node index>>
NewGraph ==
    [nodes |-> <<FeatureRoot>>, edges |-> {}, fids |-> {}, fid_cache |-> {},
     triggers |-> <<>>]

RootIx == 1

contains(map, k) == \E p \in map : p[1] = k
get(map, k) == (CHOOSE p \in map : p[1] = k)[2]
insert(map, k, v) == {p \in map : p[1] # k} \cup {<<k, v>>}

\* FeatGraph::fid_index: the graph and the index of the node of fid
fid_index(g, m, fid) ==
    IF contains(g.fids, fid)
    THEN [g |-> g, ix |-> get(g.fids, fid)]
    ELSE LET kind == IF fid.pid \in m.workspace_members THEN "Workspace" ELSE "External"
             ix == Len(g.nodes) + 1
         IN  [g |-> [g EXCEPT !.nodes = Append(@, Feature(kind, fid.pid, fid.feat)),
                              !.fids = @ \cup {<<fid, ix>>}],
              ix |-> ix]

\* Graph::find_edge
find_edge(g, a, b) == {e \in g.edges : e.a = a /\ e.b = b}

contains_kind(kinds, kind) == \E i \in DOMAIN kinds : kinds[i] = kind

\* mutant of the fold: the kind is pushed whether or not the link has it
add_edge_always_push(g, a, b, optional, kind) ==
    IF find_edge(g, a, b) # {}
    THEN LET old == CHOOSE e \in find_edge(g, a, b) : TRUE
             new == [old EXCEPT !.link.kinds = Append(@, kind),
                                !.link.optional = @ /\ optional]
         IN  [g EXCEPT !.edges = (@ \ {old}) \cup {new}]
    ELSE [g EXCEPT !.edges = @ \cup {[a |-> a, b |-> b, link |-> Link(optional, <<kind>>)]}]

\* FeatGraph::add_edge between two node indices
add_edge(g, a, b, optional, kind) ==
    IF find_edge(g, a, b) # {}
    THEN LET old == CHOOSE e \in find_edge(g, a, b) : TRUE
             new == [old EXCEPT !.link.kinds = IF contains_kind(@, kind) THEN @
                                                ELSE Append(@, kind),
                                !.link.optional = @ /\ optional]
         IN  [g EXCEPT !.edges = (@ \ {old}) \cup {new}]
    ELSE [g EXCEPT !.edges = @ \cup {[a |-> a, b |-> b, link |-> Link(optional, <<kind>>)]}]

\* FeatGraph::add_edge to a Fid, which fid_index resolves first
add_edge_to(g, m, a, fid, optional, kind) ==
    LET r == fid_index(g, m, fid)
    IN  add_edge(r.g, a, r.ix, optional, kind)

\* the additional features of a dependency, from the i-th on
RECURSIVE add_dep_features(_, _, _, _, _, _)
add_dep_features(g, m, this, dep, feats, i) ==
    IF i > Len(feats) THEN g
    ELSE add_dep_features(
            add_edge_to(g, m, this, named(dep.name, feats[i]), FALSE,
                        DepKindInfo(dep.kind, dep.target)),
            m, this, dep, feats, i + 1)

\* FeatGraph::add_package, the loop over the dependencies from the i-th on:
\* st is [g, deps], deps the map from a dependency's name to [dep, remote]
RECURSIVE add_dependencies(_, _, _, _, _)
add_dependencies(st, m, pid, base_ix, i) ==
    LET p == package(m, pid)
        dep == p.dependencies[i]
        resolves == \E j \in DOMAIN m.packages : m.packages[j].name = dep.name
        r == IF dep.optional THEN fid_index(st.g, m, named(pid, dep.name))
             ELSE [g |-> st.g, ix |-> base_ix]
        t == fid_index(r.g, m, IF dep.uses_default_features THEN Pid_root(m, dep.name)
                                                            ELSE base_of(dep.name))
        g1 == add_edge(t.g, r.ix, t.ix, FALSE, DepKindInfo(dep.kind, dep.target))
        g2 == add_dep_features(g1, m, r.ix, dep, dep.features, 1)
        key == IF dep.rename = "" THEN dep.name ELSE dep.rename
    IN  IF i > Len(p.dependencies) THEN st
        ELSE IF (pid \notin m.workspace_members /\ dep.kind = "Development") \/ ~resolves
        THEN add_dependencies(st, m, pid, base_ix, i + 1)
        ELSE add_dependencies(
                [g |-> g2, deps |-> insert(st.deps, key, [dep |-> dep, remote |-> t.ix])],
                m, pid, base_ix, i + 1)

\* Trigger
Trigger(pkg, feat, weak_dep, weak_feat) ==
    [package |-> pkg, feature |-> feat, weak_dep |-> weak_dep, weak_feat |-> weak_feat]

\* FeatGraph::add_package, one feature string of a feature
add_feat_dep(g, m, pid, this_feat, feat_ix, deps, feat_dep) ==
    LET t == FeatTarget_from(feat_dep)
        d == get(deps, t.krate)
    IN  CASE t.tag = "Named" ->
                add_edge_to(g, m, feat_ix, named(pid, t.name), FALSE, NORMAL)
          [] t.tag = "Dependency" ->
                IF contains(deps, t.krate)
                THEN add_edge(g, feat_ix, d.remote, TRUE, DepKindInfo(d.dep.kind, d.dep.target))
                ELSE g
          [] t.tag = "Remote" ->
                IF contains(deps, t.krate)
                THEN add_edge_to(g, m, feat_ix, named(d.dep.name, t.feat), TRUE,
                                 DepKindInfo(d.dep.kind, d.dep.target))
                ELSE g
          [] t.tag = "Cond" ->
                IF contains(deps, t.krate)
                THEN [g EXCEPT !.triggers =
                        Append(@, Trigger(pid, named(pid, this_feat), d.dep.name,
                                          named(d.dep.name, t.feat)))]
                ELSE g

RECURSIVE add_feat_deps(_, _, _, _, _, _, _, _)
add_feat_deps(g, m, pid, this_feat, feat_ix, deps, feat_deps, j) ==
    IF j > Len(feat_deps) THEN g
    ELSE add_feat_deps(add_feat_dep(g, m, pid, this_feat, feat_ix, deps, feat_deps[j]),
                       m, pid, this_feat, feat_ix, deps, feat_deps, j + 1)

\* FeatGraph::add_package, the loop over the features from the i-th on
RECURSIVE add_features(_, _, _, _, _, _)
add_features(g, m, pid, base_ix, deps, i) ==
    LET p == package(m, pid)
        f == p.features[i]
        r == fid_index(g, m, named(pid, f.name))
        g1 == add_edge(r.g, r.ix, base_ix, FALSE, NORMAL)
    IN  IF i > Len(p.features) THEN g
        ELSE add_features(add_feat_deps(g1, m, pid, f.name, r.ix, deps, f.deps, 1),
                          m, pid, base_ix, deps, i + 1)

\* FeatGraph::add_package
add_package(g, m, pid) ==
    LET b == fid_index(g, m, base_of(pid))
        g1 == IF pid \in m.workspace_members
              THEN add_edge_to(b.g, m, RootIx, Pid_root(m, pid), FALSE, NORMAL)
              ELSE b.g
        st == add_dependencies([g |-> g1, deps |-> {}], m, pid, b.ix, 1)
    IN  add_features(st.g, m, pid, b.ix, st.deps, 1)

\* FeatGraph::rebuild_cache: fids is rebuilt, fid_cache only receives entries
RECURSIVE cache_nodes(_, _, _)
cache_nodes(map, nodes, i) ==
    IF i > Len(nodes) THEN map
    ELSE cache_nodes(IF nodes[i].kind = "Root" THEN map
                     ELSE insert(map, fid_of(nodes[i]), i),
                     nodes, i + 1)

rebuild_cache(g) ==
    [g EXCEPT !.fids = cache_nodes({}, g.nodes, 1),
              !.fid_cache = cache_nodes(@, g.nodes, 1)]


\* ---- optimize
\* the incoming edges of a node
incoming(g, n) == {e \in g.edges : e.b = n}

\* a finite set of node indices in ascending order
RECURSIVE ascending(_)
ascending(S) ==
    IF S = {} THEN <<>>
    ELSE LET x == CHOOSE y \in S : \A z \in S : y <= z
         IN  <<x>> \o ascending(S \ {x})

\* mutant of the batch: every node without incoming edges, whatever its kind
unused_features_any_kind(g) ==
    ascending({n \in DOMAIN g.nodes : incoming(g, n) = {}})

\* trim_unused_features, the batch of one round: Graph::externals(Incoming)
\* narrowed to the Feature::External nodes
unused_features(g) ==
    ascending({n \in DOMAIN g.nodes : incoming(g, n) = {} /\ g.nodes[n].kind = "External"})

\* Graph::remove_node: the edges of the node go, the last node takes its
\* index, and an index outside the graph removes nothing
remove_node(g, f) ==
    LET end == Len(g.nodes)
        move(n) == IF n = end THEN f ELSE n
        kept == {e \in g.edges : e.a # f /\ e.b # f}
    IN  IF f \notin DOMAIN g.nodes THEN g
        ELSE [g EXCEPT
                !.nodes = [i \in 1..(end - 1) |-> IF i = f THEN g.nodes[end] ELSE g.nodes[i]],
                !.edges = {[e EXCEPT !.a = move(@), !.b = move(@)] : e \in kept}]

\* the edges as pairs of node indices
endpoints(g) == {<<e.a, e.b>> : e \in g.edges}

\* petgraph::algo::toposort returns Err: some node reaches itself
cyclic(g) == \E n \in DOMAIN g.nodes : n \in Reach(Succ(n, endpoints(g)), endpoints(g))

\* FeatGraph::transitive_reduction: skipped on a cycle, else the edges of the
\* reduction are retained
FeatGraph_transitive_reduction(g) ==
    IF cyclic(g) THEN g
    ELSE [g EXCEPT !.edges = {e \in @ : <<e.a, e.b>> \in transitive_reduction(endpoints(g))}]

\* ---- the collector
\* the edges the traversal follows under a mode, as pairs of node indices
followed(g, mode) ==
    {<<e.a, e.b>> : e \in {x \in g.edges : Link_satisfies(x.link, g.nodes[x.a], mode)}}

\* the nodes of a package among a set of nodes
nodes_of(g, V, pid) == {n \in V : g.nodes[n].kind # "Root" /\ g.nodes[n].pid = pid}

\* a trigger fires on the nodes collected so far: its feature is among them,
\* its weak dependency is among them, and its weak feature is a node of the graph
trigger_fires(g, V, t) ==
    /\ \E n \in V : g.nodes[n].kind # "Root" /\ fid_of(g.nodes[n]) = t.feature
    /\ nodes_of(g, V, t.weak_dep) # {}
    /\ contains(g.fids, t.weak_feat)

\* the traversal from the nodes V, then the weak features of the triggers that
\* fire as further starts, until nothing is added
RECURSIVE collect_features_from(_, _, _)
collect_features_from(g, V, mode) ==
    LET seen == Reach(V, followed(g, mode))
        weak == {get(g.fids, g.triggers[i].weak_feat) :
                    i \in {j \in DOMAIN g.triggers : trigger_fires(g, seen, g.triggers[j])}}
    IN  IF weak \subseteq seen THEN seen
        ELSE collect_features_from(g, seen \cup weak, mode)

\* the features collected, as the weights of the nodes
collected(g, V) == {g.nodes[n] : n \in V}

\* ---- inputs
\* length of the chain of features of rgb that nothing enables
MaxUnused == 2

UnusedNames == <<"u1", "u2", "u3", "u4">>

RECURSIVE unused_chain(_, _)
unused_chain(i, n) ==
    IF i > n THEN <<>>
    ELSE <<Feat(UnusedNames[i], IF i < n THEN <<UnusedNames[i + 1]>> ELSE <<>>)>>
         \o unused_chain(i + 1, n)

\* the features of foo, in the order of the map: ffeat names the shape and
\* an optional dependency on rgb that no feature names with dep: has its
\* implicit feature
foo_features(ffeat, frgb) ==
    LET implicit == IF frgb = "opt" /\ ffeat # "dep+weak"
                    THEN <<Feat("rgb", <<"dep:rgb">>)>> ELSE <<>>
    IN  CASE ffeat = "none"     -> implicit
          [] ffeat = "weak"     -> implicit \o <<Feat("serde", <<"rgb?/serde">>)>>
          [] ffeat = "dep+weak" -> <<Feat("serde", <<"dep:rgb", "rgb?/serde">>)>>
          [] ffeat = "remote"   -> implicit \o <<Feat("serde", <<"rgb/serde">>)>>
          [] ffeat = "cycle"    -> <<Feat("a", <<"b">>), Feat("b", <<"a">>)>> \o implicit
          [] ffeat = "unused"   -> <<Feat("extra", <<"serde">>)>> \o implicit
                                   \o <<Feat("serde", <<>>)>>

\* the feature of foo the member asks for
foo_request(ffeat) ==
    CASE ffeat = "none" -> <<>>
      [] ffeat = "cycle" -> <<"a">>
      [] OTHER -> <<"serde">>

\* a workspace of the member M with the registry packages foo and rgb:
\* mfoo and mrgb are the kinds of M's dependencies ("none" for no dependency),
\* mreq whether M asks for a feature of foo, frgb the dependency of foo on rgb
\* ("none", "req", "opt"), rdefault whether rgb has default = ["serde"],
\* n the length of the chain of unused features of rgb
Meta(mfoo, mreq, mrgb, frgb, ffeat, rdefault, n) ==
    LET M == Package("M",
                (IF mfoo = "none" THEN <<>>
                 ELSE <<Dep("foo", mfoo, FALSE, IF mreq THEN foo_request(ffeat) ELSE <<>>)>>)
                \o (IF mrgb = "none" THEN <<>> ELSE <<Dep("rgb", mrgb, FALSE, <<>>)>>),
                <<>>)
        foo == Package("foo",
                IF frgb = "none" THEN <<>>
                ELSE <<Dep("rgb", "Normal", frgb = "opt", <<>>)>>,
                foo_features(ffeat, frgb))
        rgb == Package("rgb", <<>>,
                (IF rdefault THEN <<Feat("default", <<"serde">>)>> ELSE <<>>)
                \o <<Feat("serde", <<>>)>> \o unused_chain(1, n))
    IN  [packages |-> <<M>> \o (IF mfoo = "none" THEN <<>> ELSE <<foo>>)
                          \o (IF mrgb = "none" /\ (mfoo = "none" \/ frgb = "none")
                              THEN <<>> ELSE <<rgb>>),
         workspace_members |-> {"M"}]

\* the metadata cargo can produce: a feature string names a dependency that
\* is there, and a weak or dep: one an optional dependency
ValidMeta(mfoo, frgb, ffeat) ==
    /\ ffeat \in {"weak", "dep+weak"} => frgb = "opt"
    /\ ffeat = "remote" => frgb # "none"
    /\ mfoo = "none" => frgb = "none" /\ ffeat = "none"

MetaShapes ==
    {p \in {"none", "Normal", "Development"} \X BOOLEAN \X {"none", "Normal", "Development"}
            \X {"none", "req", "opt"}
            \X {"none", "weak", "dep+weak", "remote", "cycle", "unused"}
            \X BOOLEAN \X (0..MaxUnused) :
        ValidMeta(p[1], p[4], p[5])}

Metas == {Meta(p[1], p[2], p[3], p[4], p[5], p[6], p[7]) : p \in MetaShapes}

\* ---- operations
\* the record of a remove_node: whether it removed a node, the weight of the
\* node, whether the node had incoming edges, whether the last node took its
\* index, and whether an earlier removal of the batch had moved a node
NotRemoved == [valid |-> FALSE, weight |-> FeatureRoot, used |-> FALSE,
               moved |-> FALSE, renumbered |-> FALSE]
NotCollected == [done |-> FALSE]

\* FeatGraph::init has made the graph of the Root node
InitFg ==
    /\ meta \in Metas
    /\ npkg = 0
    /\ fg = NewGraph
    /\ fg0 = <<>>
    /\ fpc = "init"
    /\ to_remove = <<>>
    /\ removed = NotRemoved
    /\ col = NotCollected
    /\ added = <<>>
    /\ OthersIdle
    /\ FnIdle

\* FeatGraph::init, the loop over the packages: one add_package
AddPackage ==
    /\ fpc = "init"
    /\ npkg < Len(meta.packages)
    /\ fg' = add_package(fg, meta, meta.packages[npkg + 1].name)
    /\ npkg' = npkg + 1
    /\ UNCHANGED <<meta, added, fg0, fpc, to_remove, removed, col, mvars, wvars, nvars>>

\* FeatGraph::init ends with rebuild_cache and returns the graph
FinishInit ==
    /\ fpc = "init"
    /\ npkg = Len(meta.packages)
    /\ fg' = rebuild_cache(fg)
    /\ fg0' = fg'
    /\ fpc' = "built"
    /\ UNCHANGED <<meta, added, npkg, to_remove, removed, col, mvars, wvars, nvars>>

\* optimize starts with trim_unused_features; the head of a round of the loop: the batch is
\* collected and the loop is left when it is empty
TrimCollect ==
    /\ fpc \in {"built", "trim"}
    /\ to_remove' = unused_features(fg)
    /\ fpc' = IF to_remove' = <<>> THEN "tred" ELSE "remove"
    /\ removed' = NotRemoved
    /\ UNCHANGED <<meta, added, npkg, fg, fg0, col, mvars, wvars, nvars>>

\* trim_unused_features, the drain of the batch: one remove_node, of an index
\* taken when the batch was collected
TrimRemove ==
    /\ fpc = "remove"
    /\ LET f == Head(to_remove)
       IN  /\ removed' = IF f \in DOMAIN fg.nodes
                         THEN [valid |-> TRUE, weight |-> fg.nodes[f],
                               used |-> incoming(fg, f) # {},
                               moved |-> f # Len(fg.nodes),
                               renumbered |-> removed.renumbered \/ removed.moved]
                         ELSE [NotRemoved EXCEPT
                                 !.renumbered = removed.renumbered \/ removed.moved]
           /\ fg' = remove_node(fg, f)
    /\ to_remove' = Tail(to_remove)
    /\ fpc' = IF to_remove' = <<>> THEN "trim" ELSE "remove"
    /\ UNCHANGED <<meta, added, npkg, fg0, col, mvars, wvars, nvars>>

\* optimize goes on with transitive_reduction
TransitiveReduction ==
    /\ fpc = "tred"
    /\ fg' = FeatGraph_transitive_reduction(fg)
    /\ fpc' = "cache"
    /\ UNCHANGED <<meta, added, npkg, fg0, to_remove, removed, col, mvars, wvars, nvars>>

\* optimize ends with rebuild_cache
RebuildCache ==
    /\ fpc = "cache"
    /\ fg' = rebuild_cache(fg)
    /\ fpc' = "optimized"
    /\ UNCHANGED <<meta, added, npkg, fg0, to_remove, removed, col, mvars, wvars, nvars>>

\* the starts of a collection: Root and the node of the member
Starts(g, m) == {RootIx} \cup {get(g.fids, Pid_root(m, p)) : p \in m.workspace_members}

\* the collector runs on the optimised graph
CollectFeatures ==
    /\ fpc = "optimized"
    /\ \E start_ix \in Starts(fg, meta), mode \in Filters :
          col' = [done |-> TRUE, from |-> fg.nodes[start_ix], mode |-> mode,
                  tree |-> collected(fg, collect_features_from(fg, {start_ix}, mode))]
    /\ fpc' = "collected"
    /\ UNCHANGED <<meta, added, npkg, fg, fg0, to_remove, removed, mvars, wvars, nvars>>

\* ---- add_edge called on a graph
\* number of calls of add_edge
MaxCalls == 3

\* the kinds of the calls
CallKinds == {NORMAL, DEV, DepKindInfo("Normal", "match")}

\* a graph of Root and the Base node of a member, without edges
InitEdges ==
    /\ meta = [packages |-> <<Package("M", <<>>, <<>>)>>, workspace_members |-> {"M"}]
    /\ npkg = 0
    /\ fg = fid_index(NewGraph, meta, base_of("M")).g
    /\ fg0 = fg
    /\ fpc = "edges"
    /\ to_remove = <<>>
    /\ removed = NotRemoved
    /\ col = NotCollected
    /\ added = <<>>
    /\ OthersIdle
    /\ FnIdle

\* FeatGraph::add_edge is called with two nodes of the graph
AddEdge ==
    /\ fpc = "edges"
    /\ Len(added) < MaxCalls
    /\ \E a \in DOMAIN fg.nodes, b \in DOMAIN fg.nodes, optional \in BOOLEAN, kind \in CallKinds :
          /\ fg' = add_edge(fg, a, b, optional, kind)
          /\ added' = Append(added, [a |-> a, b |-> b, optional |-> optional, kind |-> kind])
    /\ UNCHANGED <<meta, npkg, fg0, fpc, to_remove, removed, col, mvars, wvars, nvars>>

NextEdges == AddEdge

NextFg == AddPackage \/ FinishInit \/ TrimCollect \/ TrimRemove \/ TransitiveReduction \/ RebuildCache \/ CollectFeatures

vars == <<mvars, wvars, nvars, fvars>>

\* the manifest editor on one manifest
Spec == InitManifest /\ [][NextManifest]_vars

\* the commands on a workspace
SpecWs == InitWs /\ [][NextWs]_vars

\* calls of the functions of the feature graph
SpecFn == InitFn /\ [][NextFn]_vars

\* a feature graph is built, optimised and collected from
SpecFg == InitFg /\ [][NextFg]_vars

\* add_edge is called on a graph
SpecEdges == InitEdges /\ [][NextEdges]_vars

\* the same, and the loop of trim_unused_features, once entered, keeps running
SpecFgFair == SpecFg /\ WF_vars(TrimCollect) /\ WF_vars(TrimRemove)

\* ================================================================ claims
\* ---- helpers of the claims
\* two manifests are equal up to the order of the keys inside the tables
SameManifest(a, b) ==
    /\ \A s \in DOMAIN a.tab : AsMap(a.tab[s]) = AsMap(b.tab[s])
    /\ a.other = b.other

\* no lock, no stash, no banner
NoMetadata(d) ==
    /\ ~d.lock.present
    /\ \A ty \in DOMAIN d.stash : d.stash[ty] = NoStash
    /\ d.banner = 0

\* a value a dependency table can hold
DependencyValue(item) == item.form \in {"str", "inline", "table"}

StashEntries(d, ty) == IF d.stash[ty].kind = "table" THEN d.stash[ty].tbl ELSE <<>>

\* the lock is absent or equals the checksum of the manifest
Verifies(d) == ~d.lock.present \/ d.lock = get_checksum(d)

\* a command has ended after its changeset loop ran
LoopDone == pc = "idle" /\ runs > 0 /\ exit # "ChecksumMismatch"

\* the named features of package p among the nodes member m reaches
NamedFrom(m, p, E) ==
    {feature(n) : n \in {x \in Reach({m}, E) : package_id(x) = p /\ feature(x) # ""}}

PackagesFrom(m, E) == {package_id(n) : n \in Reach({m}, E) \ {m}}

\* no member of the workspace gets a patch edge
ChangesetEmpty ==
    \A m \in Members :
        DependencyLoop(m, <<m>>, {}, {}, transitive_reduction(base))
            = transitive_reduction(base)

\* C1: restore after hack gives back the manifest hack started with: the
\* restore succeeds, every table holds its original values, nothing else
\* differs, and no stash, lock or banner remains.
C1_RoundTrip ==
    (hist = "restored" /\ last.op = "restore") =>
        /\ last.err = ""
        /\ SameManifest(disk, orig)
        /\ NoMetadata(disk)

C3_NoMemberRegresses ==
    LoopDone =>
        \A m \in Members : \A p \in PackagesFrom(m, graph) :
            NamedFrom(m, p, graph) = workspace_feats(p, graph)

\* C4: verify fails with ChecksumMismatch exactly when the lock is present
\* and differs from the checksum of the manifest.
C4_VerifyIff ==
    last.op = "verify" =>
        ((last.err = "ChecksumMismatch") <=>
            (disk.lock.present /\ disk.lock # get_checksum(disk)))

\* C5: the checksum depends on the four dependency sections only: an
\* operation that leaves them alone leaves the checksum alone, and the
\* lock hack --lock records is the checksum of the file it writes.
C5_ChecksumFrame ==
    /\ (\A i \in 1..Len(DepSections) : disk.tab[DepSections[i]] = prev.tab[DepSections[i]])
           => get_checksum(disk) = get_checksum(prev)
    /\ (last.op = "hack" /\ last.err = "" /\ last.lock) => disk.lock = get_checksum(disk)

C5_Witness ==
    /\ last.op = "hack" /\ last.err = "" /\ last.lock
    /\ last.changes # <<>>
    /\ disk.stash["dependencies"].kind = "table"
    /\ disk.banner > 0
    /\ disk.tab # prev.tab

\* C6: check ends with exit 0 exactly when the lock of every member
\* verifies and the changeset of the workspace is empty.
C6_CheckIff ==
    (pc = "idle" /\ cmd.op = "check") =>
        ((exit = "ok") <=> ((\A m \in Members : Verifies(files[m])) /\ ChangesetEmpty))

\* C7: hack --dry writes no manifest, fails with ChangesRequired when the
\* changeset it computed is not empty and ends with exit 0 when it is empty.
C7_DryRun ==
    (pc = "idle" /\ cmd.op = "apply" /\ cmd.dry) =>
        /\ files = start
        /\ (exit = "ChangesRequired") <=> (patches # {})
        /\ (patches = {}) => (exit = "ok")

C9_RestoreEntries ==
    (/\ last.op = "restore"
     /\ \A ty \in DOMAIN prev.stash :
           /\ prev.stash[ty].kind # "bad"
           /\ \A i \in 1..Len(StashEntries(prev, ty)) :
                 \/ DependencyValue(StashEntries(prev, ty)[i].item)
                 \/ StashEntries(prev, ty)[i].item = BoolItem(FALSE)) =>
        /\ \A ty \in DOMAIN prev.stash : \A i \in 1..Len(StashEntries(prev, ty)) :
              LET e == StashEntries(prev, ty)[i]
              IN IF e.item = BoolItem(FALSE) THEN ~contains_key(disk.tab[ty], e.key)
                 ELSE /\ contains_key(disk.tab[ty], e.key)
                      /\ TableGet(disk.tab[ty], e.key) = e.item
        /\ ~disk.lock.present
        /\ \A ty \in DOMAIN disk.stash : disk.stash[ty] = NoStash
        /\ NoMetadata(prev) => disk = prev

\* C10: restore fails with StashCorrupted, and leaves the file as it was,
\* when a stash entry is neither a dependency value nor false.
C10_CorruptStash ==
    (/\ last.op = "restore"
     /\ \E ty \in DOMAIN prev.stash : \E i \in 1..Len(StashEntries(prev, ty)) :
           /\ ~DependencyValue(StashEntries(prev, ty)[i].item)
           /\ StashEntries(prev, ty)[i].item # BoolItem(FALSE)) =>
        /\ last.err = "StashCorrupted"
        /\ disk = prev

\* C11: set_dependencies on a manifest with a top-level target section fails
\* with TargetDependenciesPresent and the file on disk stays as it was: no
\* dependency key, stash, lock or banner is added.
C11_TargetRejected ==
    (last.op = "hack" /\ prev.tab["target"] # <<>>) =>
        /\ last.err = "TargetDependenciesPresent"
        /\ disk = prev

C11_Witness ==
    /\ last.op = "hack"
    /\ prev.tab["target"] # <<>>
    /\ last.changes # <<>>
    /\ last.lock
    /\ last.err = "TargetDependenciesPresent"

\* C12: after a first hack of a manifest, a key of dependencies or
\* dev-dependencies has a stash entry exactly when one of the changes was
\* written under it, and the entry is the value the key had before the
\* hack, or false when it had none.
C12_StashPerKey ==
    (last.op = "hack" /\ last.err = "" /\ hist = "hacked") =>
        \A ty \in {"dependencies", "dev-dependencies"} :
            LET keys == {compile_change_package(last.changes[i]).name :
                            i \in {j \in 1..Len(last.changes) :
                                      table_name(last.changes[j].ty) = ty}}
                stash == StashEntries(disk, ty)
            IN /\ {stash[i].key : i \in 1..Len(stash)} = keys
               /\ \A i, j \in 1..Len(stash) : stash[i].key = stash[j].key => i = j
               /\ \A i \in 1..Len(stash) :
                     stash[i].item = IF contains_key(prev.tab[ty], stash[i].key)
                                     THEN TableGet(prev.tab[ty], stash[i].key)
                                     ELSE BoolItem(FALSE)

\* C13: after every successful hack, with or without the lock, the manifest
\* begins with exactly one copy of the banner.
C13_OneBanner ==
    (last.op = "hack" /\ last.err = "") => disk.banner = 1

\* the changes the command that has ended emitted for member m
Emitted(m) ==
    Materialise(m, IF cmd.op = "hack" THEN patches ELSE get_changeset2(patches), graph)

\* C16: a feature a member reaches only through its own dev-dependencies,
\* and that no member uses otherwise, is in no change for [dependencies] of
\* that member; it is in a Dev change for its [dev-dependencies]; and a
\* member without dev-dependencies gets no Dev change.
C16_DevSeparation ==
    (LoopDone /\ cmd.op \in {"apply", "hack"} /\ ~cmd.dry) =>
        \A m \in Members :
            /\ \A e \in {x \in devs : x[1] = m /\ x[2] \notin Reach({m}, base)} :
                  LET n == e[2]
                      For(ty) == {i \in 1..Len(Emitted(m)) :
                                    /\ Emitted(m)[i].ty = ty
                                    /\ Emitted(m)[i].name = NameOf(package_id(n))
                                    /\ Emitted(m)[i].version = VersionOf(package_id(n))}
                  IN /\ n \notin Reach({Root}, base) =>
                            \A i \in For("Norm") : feature(n) \notin Emitted(m)[i].feats
                     /\ \E i \in For("Dev") : feature(n) \in Emitted(m)[i].feats
            /\ (\A x \in devs : x[1] # m) =>
                  \A i \in 1..Len(Emitted(m)) : Emitted(m)[i].ty # "Dev"

\* some occurrence of pat in s
Occurs(s, pat) == \E i \in 1..(Len(s) - Len(pat) + 1) : SubSeq(s, i, i + Len(pat) - 1) = pat

\* C14: the parser gives Dependency for a string that starts with "dep:";
\* otherwise Cond split at the first "?/"; otherwise Remote split at the first
\* "/"; otherwise Named; and the four strings of P6 parse as stated.
C14_FeatTarget ==
    (call.fn = "FeatTarget::from" /\ ret.done) =>
        LET s == call.s
            t == ret.val
        IN /\ IF StartsWith(s, "dep:")
              THEN t.tag = "Dependency" /\ "dep:" \o t.krate = s
              ELSE IF Occurs(s, "?/")
              THEN /\ t.tag = "Cond"
                   /\ t.krate \o "?/" \o t.feat = s
                   /\ ~Occurs(t.krate, "?/")
              ELSE IF Occurs(s, "/")
              THEN /\ t.tag = "Remote"
                   /\ t.krate \o "/" \o t.feat = s
                   /\ ~Occurs(t.krate, "/")
              ELSE t = Named(s)
           /\ s = "quote" => t = Named("quote")
           /\ s = "dep:serde_json" => t = Dependency("serde_json")
           /\ s = "syn/extra-tr" => t = Remote("syn", "extra-tr")
           /\ s = "rgb?/serde" => t = Cond("rgb", "serde")

C14_Witness ==
    /\ call.fn = "FeatTarget::from"
    /\ call.s = "/?/a"
    /\ ret = Returned(Cond("/", "a"))

\* the target predicate of a kind is absent or true
TargetOk(k) == k.target \in {"none", "match"}

\* C17: under AllTargets a link is active iff some kind has an absent or
\* true target predicate; under Target iff some such kind is Normal or
\* Build, or is Development with a workspace member as the source.
C17_WorkspaceModes ==
    (call.fn = "Link::satisfies" /\ ret.done /\ call.filter.mode \in {"AllTargets", "Target"}) =>
        (ret.val <=> \E i \in 1..Len(call.link.kinds) :
                   LET k == call.link.kinds[i]
                   IN /\ TargetOk(k)
                      /\ \/ call.filter.mode = "AllTargets"
                         \/ k.kind \in {"Normal", "Build"}
                         \/ k.kind = "Development" /\ call.source.kind = "Workspace")

kept_nodes(g) == {g.nodes[n] : n \in {i \in DOMAIN g.nodes : g.nodes[i].kind # "External"}}

C20_Safe ==
    /\ fpc = "tred" =>
          \A n \in DOMAIN fg.nodes : fg.nodes[n].kind = "External" => incoming(fg, n) # {}
    /\ fpc \in {"trim", "remove", "tred"} /\ removed.valid =>
          removed.weight.kind = "External" /\ ~removed.used
    /\ fpc \notin {"none", "init"} =>
          /\ kept_nodes(fg) = kept_nodes(fg0)
          /\ Cardinality(kept_nodes(fg)) =
                Cardinality({i \in DOMAIN fg.nodes : fg.nodes[i].kind # "External"})

\* C20: trim_unused_features terminates, and when it returns no External
\* node without incoming edges is left; every node it removed was an External
\* node without incoming edges when it was removed, also after an earlier
\* removal of the batch moved a node; Root and Workspace nodes stay.
C20_TrimUnused == [](C20_Safe) /\ ((fpc = "built") ~> (fpc = "tred"))

\* a node is removed after an earlier removal of the same batch moved a node
C20_Witness == fpc \in {"trim", "remove"} /\ removed.valid /\ removed.renumbered

\* ---- C19
\* the node of the graph that carries a weight
node_of(g, w) == IF w.kind = "Root" THEN RootIx ELSE get(g.fids, fid_of(w))

\* the edges of a graph between the weights of their ends
weighted(g) == {[a |-> g.nodes[e.a], b |-> g.nodes[e.b], link |-> e.link] : e \in g.edges}

\* C19: from Root or a member and under every mode, the collector reaches in
\* the optimised graph the features it reaches in the graph as it was built;
\* and on a graph with a cycle the transitive reduction leaves every edge.
C19_OptimizeSafe ==
    /\ fpc = "collected" =>
          col.tree = collected(fg0, collect_features_from(fg0, {node_of(fg0, col.from)}, col.mode))
    /\ fpc = "cache" /\ cyclic(fg) =>
          weighted(fg) = {w \in weighted(fg0) : w.a \in collected(fg, DOMAIN fg.nodes)
                                                /\ w.b \in collected(fg, DOMAIN fg.nodes)}

\* ---- C15
\* the weak feature strings of the metadata: package, feature, dependency, feature
weak_strings(m) ==
    {w \in UNION {UNION {{<<p.name, f.name, FeatTarget_from(str)>> : str \in elems(f.deps)} :
                            f \in elems(p.features)} :
                    p \in elems(m.packages)} :
        w[3].tag = "Cond"}

\* a feature is among the features collected
in_tree(tree, fid) == \E w \in tree : w.kind # "Root" /\ fid_of(w) = fid

\* a weak feature string leaves no edge and one Trigger in the graph as built
C15_Recorded ==
    fpc \notin {"none", "init"} =>
        \A w \in weak_strings(meta) :
            /\ \E i \in DOMAIN fg0.triggers :
                  fg0.triggers[i] = Trigger(w[1], named(w[1], w[2]), w[3].krate,
                                            named(w[3].krate, w[3].feat))
            /\ ~\E e \in weighted(fg0) :
                  /\ e.a.kind # "Root" /\ fid_of(e.a) = named(w[1], w[2])
                  /\ fid_of(e.b) = named(w[3].krate, w[3].feat)

\* the features collected are closed under the triggers
C15_Closed ==
    fpc = "collected" =>
        \A i \in DOMAIN fg.triggers :
            LET t == fg.triggers[i]
            IN  /\ in_tree(col.tree, t.feature) /\ in_tree(col.tree, base_of(t.weak_dep)) =>
                      /\ in_tree(col.tree, t.weak_feat)
                      /\ collected(fg, Reach({get(fg.fids, t.weak_feat)}, followed(fg, col.mode)))
                            \subseteq col.tree
                /\ (~\E w \in col.tree : w.kind # "Root" /\ w.pid = t.weak_dep) =>
                      ~in_tree(col.tree, t.weak_feat)

\* C15: a feature string krate?/feat adds no edge and records a Trigger; the
\* features collected are closed under the triggers: with the feature of a
\* trigger and the Base of its weak dependency collected, its weak feature and
\* what that reaches are collected; without the weak dependency the weak
\* feature is not collected; and the collection ends.
C15_Triggers ==
    /\ C15_Recorded
    /\ C15_Closed
    /\ fpc = "collected" => col.done

\* ---- C30
\* an entry of a lookup table names a node that carries its FID
entry_ok(g, p) ==
    /\ p[2] \in DOMAIN g.nodes
    /\ g.nodes[p[2]].kind # "Root"
    /\ fid_of(g.nodes[p[2]]) = p[1]

\* every FID is the weight of at most one node
fid_once(g) == \A i, j \in DOMAIN g.nodes : g.nodes[i] = g.nodes[j] => i = j

\* C30: a FID is a node at most once, and when init and when optimize have
\* returned every entry of fids and of fid_cache maps a FID to a node of
\* the graph that carries this FID.
C30_FidTables ==
    /\ fpc # "none" => fid_once(fg)
    /\ fpc \in {"built", "optimized", "collected"} =>
          \A p \in fg.fids \cup fg.fid_cache : entry_ok(fg, p)

\* ---- C23
\* the node has an edge to the Base node of its package
to_base(g, n) ==
    \E e \in g.edges : e.a = n /\ g.nodes[e.b] = [g.nodes[n] EXCEPT !.feat = Base]

\* C23 (I3): when init has returned, and through and after optimize, every
\* node of a named feature has an edge to the Base node of its package.
C23_NamedToBase ==
    fpc \notin {"none", "init"} =>
        \A n \in DOMAIN fg.nodes :
            fg.nodes[n].kind # "Root" /\ fg.nodes[n].feat # Base => to_base(fg, n)

\* ---- C24
\* the Remote feature strings of the metadata: package, feature, target
remote_strings(m) ==
    {w \in UNION {UNION {{<<p.name, f.name, FeatTarget_from(str)>> : str \in elems(f.deps)} :
                            f \in elems(p.features)} :
                    p \in elems(m.packages)} :
        w[3].tag = "Remote"}

\* the dependency of a package on a crate
dependency(m, pid, krate) == CHOOSE d \in elems(package(m, pid).dependencies) : d.name = krate

\* C24 (I4): for a feature string krate/feat of a package the graph as built
\* has an edge to the feature feat of the dependency, from the package's node
\* of the feature krate when the dependency is optional, else from its Base.
C24_RemoteEdges ==
    fpc \notin {"none", "init"} =>
        \A w \in remote_strings(meta) :
            \E e \in weighted(fg0) :
                /\ e.a.kind # "Root"
                /\ fid_of(e.a) = IF dependency(meta, w[1], w[3].krate).optional
                                  THEN named(w[1], w[3].krate) ELSE base_of(w[1])
                /\ fid_of(e.b) = named(w[3].krate, w[3].feat)

\* ---- C22
\* the calls of add_edge made for an ordered pair of nodes
calls_for(a, b) == {c \in elems(added) : c.a = a /\ c.b = b}

\* C22: after any calls of add_edge every ordered pair of nodes has at most
\* one edge; the pair has an edge when a call was made for it, the kinds of
\* the edge are the kinds of the calls without a duplicate, and the edge is
\* optional when every call was.
C22_Folded ==
    fpc = "edges" =>
        \A a, b \in DOMAIN fg.nodes :
            /\ Cardinality(find_edge(fg, a, b)) <= 1
            /\ (find_edge(fg, a, b) = {}) = (calls_for(a, b) = {})
            /\ \A e \in find_edge(fg, a, b) :
                  /\ elems(e.link.kinds) = {c.kind : c \in calls_for(a, b)}
                  /\ Len(e.link.kinds) = Cardinality(elems(e.link.kinds))
                  /\ e.link.optional = (\A c \in calls_for(a, b) : c.optional)

\* an edge folded from three calls, two of them alike, of two kinds, of
\* which one was optional and one not
C22_Witness ==
    /\ fpc = "edges"
    /\ Len(added) = 3
    /\ \E e \in fg.edges :
          /\ calls_for(e.a, e.b) = elems(added)
          /\ Cardinality(calls_for(e.a, e.b)) = 2
          /\ Len(e.link.kinds) = 2
          /\ ~e.link.optional
          /\ \E c \in calls_for(e.a, e.b) : c.optional

\* ---- C27
\* the package a change is for
change_package(c) == <<c.name, c.version, c.source>>

\* C27: after a hack, two of its changes that go into the same table and are
\* for different packages are under different keys of the table.
C27_DistinctKeys ==
    (last.op = "hack" /\ last.err = "") =>
        \A i, j \in 1..Len(last.changes) :
            (/\ table_name(last.changes[i].ty) = table_name(last.changes[j].ty)
             /\ change_package(last.changes[i]) # change_package(last.changes[j]))
            => compile_change_package(last.changes[i]).name
                 # compile_change_package(last.changes[j]).name

\* ---- C28
\* C28: a restore that follows the hack of a manifest as its author wrote it
\* succeeds, whatever form the values had that the hack displaced; it never
\* reports a corrupted stash.
C28_StashAccepted ==
    (hist = "restored" /\ last.op = "restore") => last.err # "StashCorrupted"

\* ---- C29
\* C29: after hack runs that follow one another on a manifest as its author
\* wrote it, every stash entry holds the value its key had in that manifest,
\* or false when the key was not there.
C29_StashOriginal ==
    (hist = "rehacked" /\ last.op = "hack" /\ last.err = "") =>
        \A ty \in {"dependencies", "dev-dependencies"} :
            \A i \in 1..Len(StashEntries(disk, ty)) :
                StashEntries(disk, ty)[i].item =
                    IF contains_key(orig.tab[ty], StashEntries(disk, ty)[i].key)
                    THEN TableGet(orig.tab[ty], StashEntries(disk, ty)[i].key)
                    ELSE BoolItem(FALSE)

\* ---- C25
\* the features a set of features implies through chains of named feature
\* strings of length one or more
RECURSIVE implied_named_feats(_, _)
implied_named_feats(declared, S) ==
    LET T == UNION {named_deps(declared, f) : f \in S}
    IN  IF T \subseteq S THEN S
        ELSE implied_named_feats(declared, S \cup T)

implied_by(declared, y) ==
    implied_named_feats(declared, named_deps(declared, y))

\* C25: optimize_feats removes from the requested set exactly the features
\* that another requested feature implies through the declared feature
\* strings, along chains of any length.
C25_RemovesImplied ==
    (call.fn = "optimize_feats" /\ ret.done) =>
        ret.val = call.requested
                    \ {x \in call.requested :
                          \E y \in call.requested \ {x} :
                              x \in implied_by(call.declared, y)}

\* ---- C26
\* C26: every requested feature is in the set optimize_feats leaves or is
\* implied by a feature of that set.
C26_NothingLost ==
    (call.fn = "optimize_feats" /\ ret.done) =>
        call.requested \subseteq implied_named_feats(call.declared, ret.val)

\* ---- C21
\* the member the loop checks next and the graph its loop leaves
loop_member == Head(queue)
loop_graph == DependencyLoop(loop_member, <<loop_member>>, {}, {}, graph)

\* the named feature nodes of the graph
feature_nodes == {n \in Nodes : feature(n) # ""}

\* every edge the loop adds goes from the member to the node of a feature
\* the workspace uses and the member did not reach, and the loop adds at
\* most as many edges as there are feature nodes
C21_Bounded ==
    (pc = "loop" /\ queue # <<>>) =>
        /\ \A e \in loop_graph \ graph :
              /\ e[1] = loop_member
              /\ feature(e[2]) \in workspace_feats(package_id(e[2]), graph)
              /\ e[2] \notin Reach({loop_member}, graph)
        /\ Cardinality(loop_graph \ graph) <= Cardinality(feature_nodes)

\* the loop ends with no package reached from the member that misses a
\* feature of the workspace
C21_Exit ==
    (pc = "loop" /\ queue # <<>>) =>
        \A p \in PackagesFrom(loop_member, loop_graph) :
            workspace_feats(p, loop_graph) \subseteq NamedFrom(loop_member, p, loop_graph)

\* the changeset holds, for a package a patch edge was added for, every
\* feature of the workspace
C21_Recorded ==
    LoopDone =>
        \A e \in patches :
            \A f \in workspace_feats(package_id(e[2]), graph) :
                <<e[1], NodeOf(package_id(e[2]), f)>> \in get_changeset2(patches)

\* C21: the changeset loop of a member ends; an iteration that finds a
\* package whose features differ from the workspace's adds one edge from the
\* member to a feature the workspace uses and the member has not seen, and
\* records every workspace feature of the package; there are at most as many
\* such iterations as feature nodes; the loop ends only when no package
\* reached from the member misses a feature of the workspace.
C21_LoopTerminates == C21_Bounded /\ C21_Exit /\ C21_Recorded

====
